---- MODULE Spec2Model ----
(***************************************************************************)
(* Model of openapi_core/schema/schemas/models.py (class Schema) and of    *)
(* openapi_core/contrib/flask/views.py (OpenAPIView.dispatch_request).     *)
(*                                                                         *)
(* Python values are represented by tokens:                                *)
(*   "null" None        "i1" int 5        "f1" float 5.0    "bT" True      *)
(*   "s1" str "5"       "sx" str "x"      "sd" str "2020-01-01"            *)
(*   "list" a list      "dict" a dict     "date" a datetime.date           *)
(* An outcome is either a returned value or a raised exception.            *)
(***************************************************************************)
EXTENDS Integers, Sequences, FiniteSets, TLC

VARIABLES anyCall, anyRet,
          castCall, castRet,
          propCall, propRet,
          tree, cache, stack, computeCount, returned,
          viewCall, viewRet

vars == <<anyCall, anyRet, castCall, castRet, propCall, propRet,
          tree, cache, stack, computeCount, returned, viewCall, viewRet>>

anyVars == <<anyCall, anyRet>>
castVars == <<castCall, castRet>>
propVars == <<propCall, propRet>>
memoVars == <<tree, cache, stack, computeCount, returned>>
viewVars == <<viewCall, viewRet>>

\* ------------------------------------------------------------------------
\* Bounds
\* ------------------------------------------------------------------------
MaxOneOf == 2

MaxListLen == 2

MaxNodes == 3

MaxAllOf == 2

MaxErrors == 2

MaxThreads == 2

Idle == <<>>

Ok(v) == [ok |-> TRUE, val |-> v, err |-> "none"]

Err(e) == [ok |-> FALSE, val |-> "none", err |-> e]

\* ------------------------------------------------------------------------
\* Values, types, formats
\* ------------------------------------------------------------------------
RawValues == {"null", "i1", "f1", "bT", "s1", "sx", "sd", "list", "dict"}

StrValues == {"s1", "sx", "sd"}

\* integer and number swapped
types_resolve_order_swapped == <<"object", "array", "boolean", "number", "integer", "string">>

types_resolve_order == <<"object", "array", "boolean", "integer", "number", "string">>

PrimitiveTypes == {"boolean", "integer", "number", "string"}

\* "none": no format; "date": built-in; "opt": a name only a caller-supplied
\* mapping registers
Formats == {"none", "date", "opt"}

\* custom_formatters: None, or a mapping that registers the format "opt"
\* whose unmarshal function turns "x" into None and keeps other strings
CustomFormatters == {"None", "cf"}

\* except UnmarshalError catches UnmarshalError and its subclasses
IsUnmarshalError(e) == e \in {"UnmarshalError", "UnmarshalValueError", "UnmarshallerError"}

\* Format Registry: the converter of (string, format) under the given custom
\* formatters, applied to a string value
FormatUnmarshal(fmt, value, cf) ==
    IF fmt = "date"
    THEN IF value = "sd" THEN Ok("date") ELSE Err("UnmarshalValueError")
    ELSE IF fmt = "opt" /\ cf = "cf"
    THEN IF value = "sx" THEN Ok("null") ELSE Ok(value)
    ELSE Ok(value)

\* The unmarshal callables of get_primitive_unmarshallers, partially applied
\* with type_format and strict
PrimitiveUnmarshal(type, fmt, value, cf, strict) ==
    CASE type = "boolean" ->
            IF value = "bT" THEN Ok("bT")
            ELSE IF ~strict /\ value \in {"i1", "f1"} THEN Ok("bT")
            ELSE Err("UnmarshalValueError")
      [] type = "integer" ->
            IF value = "i1" THEN Ok("i1")
            ELSE IF ~strict /\ value \in {"s1", "f1"} THEN Ok("i1")
            ELSE Err("UnmarshalValueError")
      [] type = "number" ->
            IF value \in {"i1", "f1"} THEN Ok("f1")
            ELSE IF ~strict /\ value = "s1" THEN Ok("f1")
            ELSE Err("UnmarshalValueError")
      [] type = "string" ->
            IF value \in StrValues THEN FormatUnmarshal(fmt, value, cf)
            ELSE IF ~strict /\ value = "i1" THEN FormatUnmarshal(fmt, "s1", cf)
            ELSE Err("UnmarshalValueError")

\* _unmarshal_collection: the value must be a sequence, elements go to items
UnmarshalCollection(items, value) ==
    IF value # "list" THEN Err("ValueError")
    ELSE IF ~items THEN Err("UnmarshalError")
    ELSE Ok("list")

\* _unmarshal_object
UnmarshalObject(value) ==
    IF value = "dict" THEN Ok("dict") ELSE Err("UnmarshalError")

\* get_unmarshal_mapping(custom_formatters, strict)[schema_type](value)
UnmarshalMapping(schema, cf, strict, schema_type, value) ==
    CASE schema_type = "object" -> UnmarshalObject(value)
      [] schema_type = "array" -> UnmarshalCollection(schema.items, value)
      [] schema_type \in PrimitiveTypes ->
            PrimitiveUnmarshal(schema_type, schema.format, value, cf, strict)
      [] OTHER -> Ok(value)

\* Schema.unmarshal of a typed (non-any) schema: the unmarshaller built by
\* SchemaUnmarshallersFactory; null passes through, failures are
\* UnmarshalError or a subtype
unmarshal(schema, value, cf, strict) ==
    IF value = "null" THEN Ok("null")
    ELSE LET out == UnmarshalMapping(schema, cf, strict, schema.type, value)
         IN  IF out.ok \/ IsUnmarshalError(out.err) THEN out
             ELSE Err("UnmarshalError")

\* ------------------------------------------------------------------------
\* Schema._unmarshal_any
\* ------------------------------------------------------------------------
\* One attempt of _unmarshal_any, with the arguments it was made with
Attempt(schema, cf, strict, out) ==
    [schema |-> schema, cf |-> cf, strict |-> strict, out |-> out]

\* The one_of loop from position i on. result "null" is Python's None.
\* subschema.unmarshal(value, custom_formatters) leaves strict at its default
RECURSIVE UnmarshalOneOf(_, _, _, _, _, _, _)
UnmarshalOneOf(one_of, i, value, cf, result, log, tried) ==
    IF i > Len(one_of)
    THEN [out |-> Ok(result),
          log |-> IF result = "null"
                  THEN Append(log, "valid oneOf schema not found")
                  ELSE log,
          tried |-> tried]
    ELSE LET unmarshalled == unmarshal(one_of[i], value, cf, TRUE)
             tried2 == Append(tried, Attempt(one_of[i], cf, TRUE, unmarshalled))
         IN  IF ~unmarshalled.ok
             THEN IF IsUnmarshalError(unmarshalled.err)
                  THEN UnmarshalOneOf(one_of, i + 1, value, cf, result, log, tried2)
                  ELSE [out |-> unmarshalled, log |-> log, tried |-> tried2]
             ELSE IF result # "null"
                  THEN UnmarshalOneOf(one_of, i + 1, value, cf, result,
                           Append(log, "multiple valid oneOf schemas found"), tried2)
                  ELSE UnmarshalOneOf(one_of, i + 1, value, cf, unmarshalled.val,
                           log, tried2)

\* The loop over types_resolve_order from position i on. The mapping comes
\* from self.get_unmarshal_mapping() with no arguments: custom_formatters is
\* None and strict is True
RECURSIVE UnmarshalByOrder(_, _, _, _)
UnmarshalByOrder(schema, i, value, tried) ==
    IF i > Len(types_resolve_order)
    THEN [out |-> Ok(value),
          log |-> <<"failed to unmarshal any type">>,
          tried |-> tried]
    ELSE LET schema_type == types_resolve_order[i]
             out == UnmarshalMapping(schema, "None", TRUE, schema_type, value)
             tried2 == Append(tried,
                 Attempt([type |-> schema_type, format |-> schema.format,
                          items |-> schema.items], "None", TRUE, out))
         IN  IF out.ok
             THEN [out |-> out, log |-> <<>>, tried |-> tried2]
             ELSE IF IsUnmarshalError(out.err) \/ out.err = "ValueError"
                  THEN UnmarshalByOrder(schema, i + 1, value, tried2)
                  ELSE [out |-> out, log |-> <<>>, tried |-> tried2]

\* a one_of list with no match raises instead of returning None
_unmarshal_any_raising(schema, value, cf, strict) ==
    IF schema.one_of # <<>>
    THEN LET r == UnmarshalOneOf(schema.one_of, 1, value, cf, "null", <<>>, <<>>)
         IN  IF r.out = Ok("null")
             THEN [out |-> Err("UnmarshalError"), log |-> <<>>, tried |-> r.tried]
             ELSE r
    ELSE UnmarshalByOrder(schema, 1, value, <<>>)

_unmarshal_any(schema, value, cf, strict) ==
    IF schema.one_of # <<>>
    THEN UnmarshalOneOf(schema.one_of, 1, value, cf, "null", <<>>, <<>>)
    ELSE UnmarshalByOrder(schema, 1, value, <<>>)

\* The schemas a one_of list is drawn from: typed schemas; an array schema
\* has items, a format is carried by string schemas
AltSchemas ==
    {[type |-> t, format |-> "none", items |-> (t = "array")] :
        t \in {"object", "array", "boolean", "integer", "number"}}
    \cup {[type |-> "string", format |-> f, items |-> FALSE] : f \in Formats}

RECURSIVE SeqsUpTo(_, _)
SeqsUpTo(S, n) ==
    IF n = 0 THEN {<<>>}
    ELSE LET shorter == SeqsUpTo(S, n - 1)
         IN  shorter \cup {Append(s, x) : s \in {q \in shorter : Len(q) = n - 1}, x \in S}

AnySchemas ==
    {[type |-> "any", format |-> f, items |-> it, one_of |-> alts] :
        f \in Formats, it \in BOOLEAN, alts \in SeqsUpTo(AltSchemas, MaxOneOf)}

AnyIdle ==
    /\ anyCall = Idle
    /\ anyRet = Idle

\* A call schema._unmarshal_any(value, custom_formatters, strict)
UnmarshalAnyCall ==
    /\ anyCall = Idle
    /\ \E schema \in AnySchemas, value \in RawValues, cf \in CustomFormatters, strict \in BOOLEAN :
        /\ anyCall' = <<[schema |-> schema, value |-> value, cf |-> cf, strict |-> strict]>>
        /\ anyRet' = <<_unmarshal_any(schema, value, cf, strict)>>
        /\ UNCHANGED <<castVars, propVars, memoVars, viewVars>>

\* ------------------------------------------------------------------------
\* Schema.cast
\* ------------------------------------------------------------------------
\* Raw values handed to cast: a scalar token, a list of scalar tokens, or a
\* dict (elems are its keys, what iterating it yields)
Scalar(t) == [kind |-> "scalar", tok |-> t, elems |-> <<>>]

List(es) == [kind |-> "list", tok |-> "list", elems |-> es]

Dict(keys) == [kind |-> "dict", tok |-> "dict", elems |-> keys]

CastScalars == {"null", "i1", "f1", "bT", "s1", "sx"}

CastValues ==
    {Scalar(t) : t \in CastScalars}
    \cup {List(es) : es \in SeqsUpTo(CastScalars, MaxListLen)}
    \cup {Dict(<<"sx">>)}

CastOk(v) == [ok |-> TRUE, val |-> v, err |-> "none", evalue |-> v, etype |-> "none"]

CastRaise(e, v, t) == [ok |-> FALSE, val |-> v, err |-> e, evalue |-> v, etype |-> t]

\* int(value)
PyInt(value) ==
    IF value.kind # "scalar" THEN CastRaise("TypeError", value, "none")
    ELSE CASE value.tok \in {"i1", "f1", "bT", "s1"} -> CastOk(Scalar("i1"))
           [] value.tok = "sx" -> CastRaise("ValueError", value, "none")
           [] OTHER -> CastRaise("TypeError", value, "none")

\* float(value)
PyFloat(value) ==
    IF value.kind # "scalar" THEN CastRaise("TypeError", value, "none")
    ELSE CASE value.tok \in {"i1", "f1", "bT", "s1"} -> CastOk(Scalar("f1"))
           [] value.tok = "sx" -> CastRaise("ValueError", value, "none")
           [] OTHER -> CastRaise("TypeError", value, "none")

\* forcebool(value): a string goes through the boolean-string grammar, any
\* other value through its truth value
forcebool(value) ==
    IF value.kind = "scalar"
    THEN CASE value.tok = "s1" -> CastOk(Scalar("bT"))
           [] value.tok = "sx" -> CastRaise("ValueError", value, "none")
           [] value.tok = "null" -> CastOk(Scalar("bF"))
           [] OTHER -> CastOk(Scalar("bT"))
    ELSE IF value.elems = <<>> THEN CastOk(Scalar("bF")) ELSE CastOk(Scalar("bT"))

\* TYPE_CAST_CALLABLE_GETTER[type](value); the defaultdict of
\* get_cast_mapping gives the identity for the other types
TYPE_CAST_CALLABLE_GETTER(type, value) ==
    CASE type = "integer" -> PyInt(value)
      [] type = "number" -> PyFloat(value)
      [] type = "boolean" -> forcebool(value)
      [] OTHER -> CastOk(value)

\* cast of a schema that is not an array
CastPlain(type, value) ==
    IF value = Scalar("null") THEN CastOk(value)
    ELSE LET out == TYPE_CAST_CALLABLE_GETTER(type, value)
         IN  IF ~out.ok /\ out.err = "ValueError"
             THEN CastRaise("CastError", value, type)
             ELSE out

\* what iterating a value yields; <<"TypeError">> when it is not iterable
Iterate(value) ==
    IF value.kind \in {"list", "dict"} THEN value.elems
    ELSE IF value.tok \in {"s1", "sx"} THEN <<value.tok>>
    ELSE <<"TypeError">>

\* list(map(self.items.cast, value)) from element i on
RECURSIVE MapCast(_, _, _, _)
MapCast(items_type, elems, i, acc) ==
    IF i > Len(elems) THEN CastOk(List(acc))
    ELSE LET out == CastPlain(items_type, Scalar(elems[i]))
         IN  IF out.ok THEN MapCast(items_type, elems, i + 1, Append(acc, out.val.tok))
             ELSE out

_cast_collection(schema, value) ==
    IF Iterate(value) = <<"TypeError">> THEN CastRaise("TypeError", value, "none")
    ELSE MapCast(schema.items, Iterate(value), 1, <<>>)

cast(schema, value) ==
    IF value = Scalar("null") THEN CastOk(value)
    ELSE IF schema.type = "array"
    THEN LET out == _cast_collection(schema, value)
         IN  IF ~out.ok /\ out.err = "ValueError"
             THEN CastRaise("CastError", value, schema.type)
             ELSE out
    ELSE CastPlain(schema.type, value)

ScalarTypes == {"integer", "number", "boolean", "string"}

CastSchemas ==
    {[type |-> t, items |-> "none"] : t \in ScalarTypes \cup {"object", "any"}}
    \cup {[type |-> "array", items |-> it] : it \in ScalarTypes}

\* ------------------------------------------------------------------------
\* Property resolution: get_all_properties, get_all_required_properties,
\* get_all_required_properties_names
\* ------------------------------------------------------------------------
\* A schema tree is a function from node ids to nodes; all_of lists hold the
\* ids of later nodes only (composition is acyclic). properties maps each name
\* to the property's schema, or to Absent; the schema a node declares for a
\* property is identified by the id of the declaring node.
Nodes == 1..MaxNodes

Names == {"x", "y"}

Absent == 0

AllOfLists(n) ==
    {l \in SeqsUpTo((n + 1)..MaxNodes, MaxAllOf) :
        \A i, j \in 1..Len(l) : i # j => l[i] # l[j]}

NodeRecs(n, DeclSets, ReqSets) ==
    {[properties |-> [k \in Names |-> IF k \in d THEN n ELSE Absent],
      required |-> r, all_of |-> a] :
        d \in DeclSets, r \in ReqSets, a \in AllOfLists(n)}

RECURSIVE TreesFrom(_, _, _)
TreesFrom(n, DeclSets, ReqSets) ==
    IF n > MaxNodes THEN {<<>>}
    ELSE {[i \in n..MaxNodes |-> IF i = n THEN rec ELSE rest[i]] :
              rec \in NodeRecs(n, DeclSets, ReqSets),
              rest \in TreesFrom(n + 1, DeclSets, ReqSets)}

Trees == TreesFrom(1, SUBSET Names, SUBSET Names)

\* dict.update
Update(properties, subschema_props) ==
    [k \in Names |-> IF subschema_props[k] # Absent
                     THEN subschema_props[k] ELSE properties[k]]

Keys(d) == {k \in Names : d[k] # Absent}

RECURSIVE UpdateAll(_, _, _, _)
RECURSIVE get_all_properties(_, _)
get_all_properties(t, n) == UpdateAll(t, t[n].all_of, 1, t[n].properties)

\* the loop of get_all_properties from all_of position i on
UpdateAll(t, all_of, i, properties) ==
    IF i > Len(all_of) THEN properties
    ELSE UpdateAll(t, all_of, i + 1,
                   Update(properties, get_all_properties(t, all_of[i])))

\* the dict built by _get_all_required_properties
RequiredDict(all_properties, required) ==
    [k \in Names |-> IF k \in required THEN all_properties[k] ELSE Absent]

RECURSIVE get_all_required_properties(_, _)
RECURSIVE get_all_required_properties_names(_, _)
RECURSIVE RequiredLoop(_, _, _, _)
\* the memoized value is the one _get_all_required_properties computes
get_all_required_properties(t, n) ==
    RequiredDict(get_all_properties(t, n), get_all_required_properties_names(t, n))

get_all_required_properties_names(t, n) ==
    RequiredLoop(t, t[n].all_of, 1, t[n].required)

\* required += subschema.get_all_required_properties(): the keys of the dict
RequiredLoop(t, all_of, i, required) ==
    IF i > Len(all_of) THEN required
    ELSE RequiredLoop(t, all_of, i + 1,
             required \cup Keys(get_all_required_properties(t, all_of[i])))

CastIdle ==
    /\ castCall = Idle
    /\ castRet = Idle

PropIdle ==
    /\ propCall = Idle
    /\ propRet = Idle

MemoIdle ==
    /\ tree = <<>>
    /\ cache = <<>>
    /\ stack = <<>>
    /\ computeCount = <<>>
    /\ returned = <<>>

ViewIdle ==
    /\ viewCall = Idle
    /\ viewRet = Idle

InitAny == AnyIdle /\ CastIdle /\ PropIdle /\ MemoIdle /\ ViewIdle

NextAny == UnmarshalAnyCall

SpecAny == InitAny /\ [][NextAny]_vars

\* ------------------------------------------------------------------------
\* Claims about _unmarshal_any
\* ------------------------------------------------------------------------
OneOfCalled == anyCall # Idle /\ anyCall[1].schema.one_of # <<>>

ByOrderCalled == anyCall # Idle /\ anyCall[1].schema.one_of = <<>>

\* positions of the attempts that succeeded
Succeeded(tried) == {i \in 1..Len(tried) : tried[i].out.ok}

FirstOf(S) == CHOOSE i \in S : \A j \in S : i <= j

Logged(msg) == \E i \in 1..Len(anyRet[1].log) : anyRet[1].log[i] = msg

AllTriedInOrder ==
    /\ Len(anyRet[1].tried) = Len(anyCall[1].schema.one_of)
    /\ \A i \in 1..Len(anyRet[1].tried) :
          anyRet[1].tried[i].schema = anyCall[1].schema.one_of[i]

\* C1: with one_of, every alternative is attempted in declaration order and,
\* when at least one succeeds, the value of the first one that succeeded is
\* returned, with an ambiguity warning when more than one succeeded.
C1_FirstSuccessWins ==
    OneOfCalled =>
        LET S == Succeeded(anyRet[1].tried)
        IN  /\ AllTriedInOrder
            /\ (S # {} => anyRet[1].out = Ok(anyRet[1].tried[FirstOf(S)].out.val))
            /\ (Cardinality(S) > 1 => Logged("multiple valid oneOf schemas found"))

\* C10: "valid oneOf schema not found" is logged iff no alternative
\* succeeded, "multiple valid oneOf schemas found" iff more than one did; a
\* success with a null result counts as a success.
C10_WarningsIffCounts ==
    OneOfCalled =>
        LET S == Succeeded(anyRet[1].tried)
        IN  /\ (Logged("valid oneOf schema not found") <=> (S = {}))
            /\ (Logged("multiple valid oneOf schemas found") <=> (Cardinality(S) > 1))

C2_TypePrecedence ==
    ByOrderCalled =>
        LET order == <<"object", "array", "boolean", "integer", "number", "string">>
            tried == anyRet[1].tried
            n == Len(tried)
        IN  /\ n \in 1..6
            /\ \A i \in 1..n :
                  /\ tried[i].schema.type = order[i]
                  /\ tried[i].out = UnmarshalMapping(anyCall[1].schema, tried[i].cf,
                                        tried[i].strict, order[i], anyCall[1].value)
                  /\ (i < n => /\ ~tried[i].out.ok
                               /\ tried[i].out.err \in {"UnmarshalError",
                                      "UnmarshalValueError", "UnmarshallerError",
                                      "ValueError"})
            /\ IF tried[n].out.ok
               THEN anyRet[1].out = tried[n].out /\ anyRet[1].log = <<>>
               ELSE /\ n = 6
                    /\ anyRet[1].out = Ok(anyCall[1].value)
                    /\ anyRet[1].log = <<"failed to unmarshal any type">>

C2_Witness ==
    /\ ByOrderCalled
    /\ anyCall[1].value = "i1"
    /\ Len(anyRet[1].tried) = 4
    /\ anyRet[1].tried[1].out = Err("UnmarshalError")
    /\ anyRet[1].tried[2].out = Err("ValueError")
    /\ anyRet[1].out = Ok("i1")

\* C9: every attempt of _unmarshal_any is made with the strict flag and the
\* custom formatters of the enclosing call, so a call with strict=false
\* accepts whatever the attempted schema accepts directly with strict=false.
C9_ArgumentsPassedOn ==
    anyCall # Idle =>
        \A i \in 1..Len(anyRet[1].tried) :
            /\ anyRet[1].tried[i].strict = anyCall[1].strict
            /\ anyRet[1].tried[i].cf = anyCall[1].cf
            /\ (OneOfCalled =>
                  anyRet[1].tried[i].out =
                      unmarshal(anyRet[1].tried[i].schema, anyCall[1].value,
                                anyCall[1].cf, anyCall[1].strict))

\* ------------------------------------------------------------------------
\* A call schema.cast(value)
\* ------------------------------------------------------------------------
CastCall ==
    /\ castCall = Idle
    /\ \E schema \in CastSchemas, value \in CastValues :
        /\ castCall' = <<[schema |-> schema, value |-> value]>>
        /\ castRet' = <<cast(schema, value)>>
        /\ UNCHANGED <<anyVars, propVars, memoVars, viewVars>>

InitCast == InitAny

NextCast == CastCall

SpecCast == InitCast /\ [][NextCast]_vars

\* C7: for an integer, number, boolean or array schema a non-null value that
\* cannot be converted makes cast fail with a CastError carrying the offending
\* value and the target type, and with no other error; null is returned as is.
C7_OnlyCastError ==
    (castCall # Idle /\ castCall[1].schema.type \in {"integer", "number", "boolean", "array"}) =>
        LET schema == castCall[1].schema
            value == castCall[1].value
            out == castRet[1]
        IN  /\ (value = Scalar("null") => out = CastOk(value))
            /\ (~out.ok =>
                  /\ out.err = "CastError"
                  /\ \/ out.evalue = value /\ out.etype = schema.type
                     \/ /\ schema.type = "array"
                        /\ out.etype = schema.items
                        /\ \E i \in 1..Len(Iterate(value)) :
                              out.evalue = Scalar(Iterate(value)[i]))

\* ------------------------------------------------------------------------
\* A call of the property-resolution methods on the root of a schema tree
\* ------------------------------------------------------------------------
ResolveCall ==
    /\ propCall = Idle
    /\ \E t \in Trees :
        /\ propCall' = <<[tree |-> t, node |-> 1]>>
        /\ propRet' = <<[all_properties |-> get_all_properties(t, 1),
                         required_names |-> get_all_required_properties_names(t, 1),
                         required_properties |-> get_all_required_properties(t, 1)]>>
        /\ UNCHANGED <<anyVars, castVars, memoVars, viewVars>>

InitProps == InitAny

NextProps == ResolveCall

SpecProps == InitProps /\ [][NextProps]_vars

RECURSIVE LeftBiased(_, _)
RECURSIVE FirstWins(_, _, _, _)
\* own properties first, then the all_of members in order, never overriding
LeftBiased(t, n) == FirstWins(t, t[n].all_of, 1, t[n].properties)

FirstWins(t, all_of, i, properties) ==
    IF i > Len(all_of) THEN properties
    ELSE FirstWins(t, all_of, i + 1,
             [k \in Names |-> IF properties[k] # Absent THEN properties[k]
                              ELSE LeftBiased(t, all_of[i])[k]])

\* C4: the effective properties hold every own and every inherited property;
\* an own property wins over an inherited one of the same name and, among the
\* inherited ones, the first all_of member declaring the name wins.
C4_LeftBiasedFlattening ==
    propCall # Idle =>
        propRet[1].all_properties = LeftBiased(propCall[1].tree, propCall[1].node)

RECURSIVE RequiredUnion(_, _)
RequiredUnion(t, n) ==
    t[n].required \cup
        UNION {RequiredUnion(t, t[n].all_of[i]) : i \in 1..Len(t[n].all_of)}

\* C5: the effective required names are the own required names united with
\* the effective required names of every all_of member, whether or not the
\* member declares a property of that name.
C5_RequiredNamesUnion ==
    propCall # Idle =>
        propRet[1].required_names = RequiredUnion(propCall[1].tree, propCall[1].node)

\* ------------------------------------------------------------------------
\* get_all_required_properties called from several threads on one shared
\* schema tree. Each thread runs a stack of frames, one per active call of
\* get_all_required_properties:
\*   "check"   about to test self._all_required_properties_cache is None
\*   "loop"    inside _get_all_required_properties, at all_of position i of
\*             the loop of get_all_required_properties_names
\*   "assign"  about to store the computed dict in the cache
\*   "return"  about to return self._all_required_properties_cache
\* ------------------------------------------------------------------------
Threads == 1..MaxThreads

NoValue == [set |-> FALSE, val |-> [k \in Names |-> Absent]]

Value(d) == [set |-> TRUE, val |-> d]

Frame(n, pc, i, required) == [node |-> n, pc |-> pc, i |-> i, required |-> required]

\* the trees the threads share: every node declares x, requires x or nothing
MemoTrees == TreesFrom(1, {{"x"}}, {{}, {"x"}})

InitMemo ==
    /\ AnyIdle /\ CastIdle /\ PropIdle /\ ViewIdle
    /\ tree \in MemoTrees
    /\ cache = [n \in Nodes |-> NoValue]
    /\ stack = [t \in Threads |-> <<>>]
    /\ computeCount = [n \in Nodes |-> 0]
    /\ returned = [t \in Threads |-> NoValue]

Top(t) == stack[t][Len(stack[t])]

SetTop(t, f) == [stack EXCEPT ![t] = [@ EXCEPT ![Len(@)] = f]]

Others == <<anyVars, castVars, propVars, viewVars>>

\* a thread calls get_all_required_properties on the root node
Call(t) ==
    /\ stack[t] = <<>>
    /\ ~returned[t].set
    /\ stack' = [stack EXCEPT ![t] = <<Frame(1, "check", 1, {})>>]
    /\ UNCHANGED <<tree, cache, computeCount, returned, Others>>

\* if self._all_required_properties_cache is None: start the computation
CheckMiss(t) ==
    /\ stack[t] # <<>>
    /\ Top(t).pc = "check"
    /\ ~cache[Top(t).node].set
    /\ computeCount' = [computeCount EXCEPT ![Top(t).node] = @ + 1]
    /\ stack' = SetTop(t, Frame(Top(t).node, "loop", 1, tree[Top(t).node].required))
    /\ UNCHANGED <<tree, cache, returned, Others>>

CheckHit(t) ==
    /\ stack[t] # <<>>
    /\ Top(t).pc = "check"
    /\ cache[Top(t).node].set
    /\ stack' = SetTop(t, [Top(t) EXCEPT !.pc = "return"])
    /\ UNCHANGED <<tree, cache, computeCount, returned, Others>>

\* for subschema in self.all_of: subschema.get_all_required_properties()
LoopCall(t) ==
    /\ stack[t] # <<>>
    /\ Top(t).pc = "loop"
    /\ Top(t).i <= Len(tree[Top(t).node].all_of)
    /\ stack' = [stack EXCEPT ![t] =
                    Append(@, Frame(tree[Top(t).node].all_of[Top(t).i], "check", 1, {}))]
    /\ UNCHANGED <<tree, cache, computeCount, returned, Others>>

LoopDone(t) ==
    /\ stack[t] # <<>>
    /\ Top(t).pc = "loop"
    /\ Top(t).i > Len(tree[Top(t).node].all_of)
    /\ stack' = SetTop(t, [Top(t) EXCEPT !.pc = "assign"])
    /\ UNCHANGED <<tree, cache, computeCount, returned, Others>>

\* self._all_required_properties_cache = self._get_all_required_properties()
Assign(t) ==
    /\ stack[t] # <<>>
    /\ Top(t).pc = "assign"
    /\ cache' = [cache EXCEPT ![Top(t).node] =
                    Value(RequiredDict(get_all_properties(tree, Top(t).node),
                                       Top(t).required))]
    /\ stack' = SetTop(t, [Top(t) EXCEPT !.pc = "return"])
    /\ UNCHANGED <<tree, computeCount, returned, Others>>

\* return self._all_required_properties_cache, to the caller's loop
\* (required += subschema_req) or out of the thread's call
Return(t) ==
    /\ stack[t] # <<>>
    /\ Top(t).pc = "return"
    /\ IF Len(stack[t]) = 1
       THEN /\ returned' = [returned EXCEPT ![t] = cache[Top(t).node]]
            /\ stack' = [stack EXCEPT ![t] = <<>>]
       ELSE LET caller == stack[t][Len(stack[t]) - 1]
            IN  /\ stack' = [stack EXCEPT ![t] =
                     Append(SubSeq(@, 1, Len(@) - 2),
                            [caller EXCEPT !.i = @ + 1,
                                !.required = @ \cup Keys(cache[Top(t).node].val)])]
                /\ UNCHANGED returned
    /\ UNCHANGED <<tree, cache, computeCount, Others>>

NextMemo ==
    \E t \in Threads :
        \/ Call(t)
        \/ CheckMiss(t)
        \/ CheckHit(t)
        \/ LoopCall(t)
        \/ LoopDone(t)
        \/ Assign(t)
        \/ Return(t)

SpecMemo == InitMemo /\ [][NextMemo]_vars

\* C6: under concurrent first calls on one node the computation runs at most
\* once per node and every caller returns the fully computed result.
C6_ComputedOnce ==
    /\ \A n \in DOMAIN computeCount : computeCount[n] <= 1
    /\ \A t \in DOMAIN returned :
          returned[t].set =>
              returned[t].val = get_all_required_properties(tree, 1)

\* ------------------------------------------------------------------------
\* OpenAPIView.dispatch_request
\* ------------------------------------------------------------------------
\* the errors a request validation result can hold; InvalidServer is caught
\* by the first except clause, every other one by except OpenAPIMappingError
RequestErrors == {"InvalidServer", "InvalidOperation"}

ResponseErrors == {"InvalidResponse", "InvalidMediaType"}

\* the responses the view's handler can return
HandlerResponses == {"r200", "r201", "r404"}

\* handle_openapi_errors(errors), as the subclass implements it: a response
\* built from the errors handed to it
handle_openapi_errors(errors) == [kind |-> "errors", body |-> "none", errors |-> errors]

HandlerResponse(r) == [kind |-> "view", body |-> r, errors |-> <<>>]

\* the try block of lines 25-39: the errors collected and the response so far
RequestStage(request_errors, handler_response) ==
    IF request_errors = <<>>
    THEN [errors |-> <<>>, response |-> HandlerResponse(handler_response),
          handler_called |-> TRUE]
    ELSE IF request_errors[1] = "InvalidServer"
    THEN [errors |-> <<request_errors[1]>>,
          response |-> handle_openapi_errors(<<request_errors[1]>>),
          handler_called |-> FALSE]
    ELSE [errors |-> request_errors,
          response |-> handle_openapi_errors(request_errors),
          handler_called |-> FALSE]

\* lines 41-50: the response is validated, whatever the try block did
dispatch_request(request_errors, handler_response, response_errors) ==
    LET stage == RequestStage(request_errors, handler_response)
    IN  [handler_called |-> stage.handler_called,
         response_validated |-> TRUE,
         validated_response |-> stage.response,
         response |-> IF response_errors # <<>>
                      THEN handle_openapi_errors(stage.errors \o response_errors)
                      ELSE stage.response]

DispatchCall ==
    /\ viewCall = Idle
    /\ \E request_errors \in SeqsUpTo(RequestErrors, MaxErrors),
          handler_response \in HandlerResponses,
          response_errors \in SeqsUpTo(ResponseErrors, MaxErrors) :
        /\ viewCall' = <<[request_errors |-> request_errors,
                          handler_response |-> handler_response,
                          response_errors |-> response_errors]>>
        /\ viewRet' = <<dispatch_request(request_errors, handler_response,
                                         response_errors)>>
        /\ UNCHANGED <<anyVars, castVars, propVars, memoVars>>

InitView == InitAny

NextView == DispatchCall

SpecView == InitView /\ [][NextView]_vars

ServerError ==
    /\ viewCall # Idle
    /\ viewCall[1].request_errors # <<>>
    /\ viewCall[1].request_errors[1] = "InvalidServer"

\* C8: when request validation reports InvalidServer the view returns the
\* handle_openapi_errors response at once: the handler is not invoked, no
\* response validation follows, and the returned response is the one built
\* from that single server error.
C8_ReturnOnServerError ==
    ServerError =>
        /\ ~viewRet[1].handler_called
        /\ ~viewRet[1].response_validated
        /\ viewRet[1].response = handle_openapi_errors(<<"InvalidServer">>)

====
